---------------------------- MODULE Spec2Model ----------------------------
(***************************************************************************)
(* Main-thread lifecycle controller of CLAP plugin instances               *)
(* (src/src/plugin/instance.rs) together with the recording component stub *)
(* and the Host registry it talks to.                                      *)
(*                                                                         *)
(* Every method of Plugin is one action.  A panic (a failed                *)
(* assert_plugin_state_eq!, assert_plugin_state_initialized! or assert!)   *)
(* is an outcome of the operation: the operation reports "panic" and       *)
(* nothing after the panicking statement is executed.                      *)
(***************************************************************************)
EXTENDS Integers, Sequences, FiniteSets, TLC

(***************************************************************************)
(* Bounds of the model.                                                    *)
(***************************************************************************)
\* Once the stubs have recorded this many cross-boundary calls in total, only
\* teardown (which records at most two more per instance) still records any.
MaxCalls == 3

\* The Plugin values the harness creates.
Instances == {"p1", "p2"}

(***************************************************************************)
(* PluginStatus: the enum's variants in declaration order; the derived     *)
(* PartialOrd/Ord compares variants by their position.                     *)
(***************************************************************************)
PluginStatus == <<"Uninitialized", "Deactivated", "Activated", "Processing">>

Ord(s) == CHOOSE k \in 1..Len(PluginStatus) : PluginStatus[k] = s

StatusValues == {PluginStatus[k] : k \in 1..Len(PluginStatus)}

\* #[default] Uninitialized
PluginStatus_default == PluginStatus[1]

(***************************************************************************)
(* Values crossing the boundary.                                           *)
(***************************************************************************)
\* A null pointer, and the non-null pointers the component may return.
NULL == "null"
Tables == {"tbl1", "tbl2"}
Pointers == {NULL} \cup Tables

\* The concrete capability types, and the context P of each one's
\* `impl Extension<P>`.
ConcreteCapabilities == {"Gui", "PosixFDSupport", "TimerSupport"}

ExtensionContext(T) ==
    CASE T = "Gui" -> "&Plugin"
      [] T = "PosixFDSupport" -> "&Plugin"
      [] T = "TimerSupport" -> "Plugin"

\* The capability types that implement Extension<&Plugin>, and so are
\* accepted by get_extension (T: Extension<&'a Self>), with their EXTENSION_ID.
MainThreadExtensions ==
    {T \in ConcreteCapabilities : ExtensionContext(T) = "&Plugin"}

EXTENSION_ID(T) ==
    CASE T = "Gui" -> "clap.gui"
      [] T = "PosixFDSupport" -> "clap.posix-fd-support"
      [] T = "TimerSupport" -> "clap.timer-support"

\* A usize of the 64-bit target as its two 32-bit words: value = hi * 2^32 + lo.
USize(hi, lo) == [hi |-> hi, lo |-> lo]

\* The buffer sizes the harness passes: 0, 1 and 2^32.
BufferSizes == {USize(0, 0), USize(0, 1), USize(1, 0)}

\* `n as u32`: the low 32 bits.
as_u32(n) == n.lo

\* `n >= 1` on a usize.
usize_ge_1(n) == n.hi > 0 \/ n.lo > 0

(***************************************************************************)
(* One recorded invocation of an entry point of the component's function   *)
(* table.                                                                  *)
(***************************************************************************)
Call(fn, id, min, max, ret) ==
    [fn |-> fn, id |-> id, min_buffer |-> min, max_buffer |-> max, ret |-> ret]

BoolRet(b) == IF b THEN "true" ELSE "false"

VARIABLES
    phase,          \* per Plugin value: "unborn", "alive", "failed" (new
                    \* returned Err), "dropped", "aborted" (drop panicked)
    state_status,   \* InstanceState.status (atomic PluginStatus)
    state_plugin,   \* InstanceState.plugin (atomic Option<PluginHandle>)
    instances,      \* Host: the registered InstanceStates
    host_calls,     \* per instance: the Host registry calls made for it
    factory_calls,  \* per instance: what create_plugin returned for it
    calls,          \* per instance: the entry points its stub recorded
    audio,          \* per instance: an audio-thread session is active
    pc,             \* where the main thread is inside a Plugin method
    last            \* the operation that completed last, and its outcome

vars == <<phase, state_status, state_plugin, instances, host_calls,
          factory_calls, calls, audio, pc, last>>

Outcome(op, i, result, value) ==
    [op |-> op, inst |-> i, result |-> result, value |-> value]

\* The main thread is at statement `at` of a method called on instance i;
\* in_drop tells that the method runs as part of i's teardown.
At(at, i, in_drop) == [at |-> at, inst |-> i, in_drop |-> in_drop]

\* The main thread is between two calls.
Idle == At("idle", "-", FALSE)


(***************************************************************************)
(* Collaborators outside instance.rs: the state assertions, InstanceState   *)
(* and the Host registry.                                                  *)
(***************************************************************************)
\* assert_plugin_state_eq!(self, expected): TRUE when the assertion passes.
assert_plugin_state_eq(i, expected) == state_status[i] = expected

\* assert_plugin_state_initialized!(self): TRUE when the assertion passes.
assert_plugin_state_initialized(i) == state_status[i] # "Uninitialized"

\* InstanceState::new(host): the default status and no handle yet.
InstanceState_new == [status |-> PluginStatus_default, plugin |-> "None"]

\* No InstanceState has been allocated for the Plugin value yet.
Unallocated == [status |-> "-", plugin |-> "-"]

\* Host::register_instance / Host::unregister_instance on the registry.
register_instance(registry, i) == registry \cup {i}

unregister_instance(registry, i) == registry \ {i}

(***************************************************************************)
(* Initial state: nothing has been created.                                *)
(***************************************************************************)
Init ==
    /\ phase = [i \in Instances |-> "unborn"]
    /\ state_status = [i \in Instances |-> Unallocated.status]
    /\ state_plugin = [i \in Instances |-> Unallocated.plugin]
    /\ instances = {}
    /\ host_calls = [i \in Instances |-> <<>>]
    /\ factory_calls = [i \in Instances |-> <<>>]
    /\ calls = [i \in Instances |-> <<>>]
    /\ audio = [i \in Instances |-> FALSE]
    /\ pc = Idle
    /\ last = Outcome("none", "-", "ok", "")

\* The calls the stubs have recorded in total.
RECURSIVE Recorded(_)
Recorded(S) ==
    IF S = {} THEN 0
    ELSE LET x == CHOOSE x \in S : TRUE
         IN  Len(calls[x]) + Recorded(S \ {x})

\* The stub of instance i records one more call.
Record(i, c) == [calls EXCEPT ![i] = Append(@, c)]

\* The operation panicked: nothing but its outcome changes.
Panicked(op, i) ==
    /\ last' = Outcome(op, i, "panic", "")
    /\ UNCHANGED <<pc, phase, state_status, state_plugin, instances, host_calls,
                   factory_calls, calls, audio>>

(***************************************************************************)
(* Faulty variants of new, to show that the properties depend on it.       *)
(***************************************************************************)
\* The InstanceState starts as `initial`, and with `early` it is registered
\* before create_plugin's result is looked at.
new_variant(i, initial, early) ==
    /\ phase[i] = "unborn"
    /\ \E plugin \in {NULL, i} :
         /\ state_status' = [state_status EXCEPT ![i] = initial]
         /\ factory_calls' = [factory_calls EXCEPT ![i] = Append(@, plugin)]
         /\ IF plugin = NULL
            THEN /\ phase' = [phase EXCEPT ![i] = "failed"]
                 /\ state_plugin' = [state_plugin EXCEPT ![i] = InstanceState_new.plugin]
                 /\ last' = Outcome("new", i, "err", "")
                 /\ IF early
                    THEN /\ instances' = register_instance(instances, i)
                         /\ host_calls' = [host_calls EXCEPT
                                             ![i] = Append(@, "register_instance")]
                    ELSE UNCHANGED <<pc, instances, host_calls>>
            ELSE /\ phase' = [phase EXCEPT ![i] = "alive"]
                 /\ state_plugin' = [state_plugin EXCEPT ![i] = plugin]
                 /\ instances' = register_instance(instances, i)
                 /\ host_calls' = [host_calls EXCEPT
                                     ![i] = Append(@, "register_instance")]
                 /\ last' = Outcome("new", i, "ok", "")
    /\ UNCHANGED <<pc, calls, audio>>

\* The fresh instance is taken to be initialized already.
new_initialized(i) == new_variant(i, "Deactivated", FALSE)

\* The InstanceState is registered before the null check.
new_registers_first(i) == new_variant(i, InstanceState_new.status, TRUE)

(***************************************************************************)
(* Plugin::new(host, factory, plugin_id)                                   *)
(***************************************************************************)
new(i) ==
    /\ phase[i] = "unborn"
    /\ \E plugin \in {NULL, i} :        \* what create_plugin returns
         /\ state_status' = [state_status EXCEPT ![i] = InstanceState_new.status]
         /\ factory_calls' = [factory_calls EXCEPT ![i] = Append(@, plugin)]
         /\ IF plugin = NULL
            THEN /\ phase' = [phase EXCEPT ![i] = "failed"]
                 /\ state_plugin' = [state_plugin EXCEPT ![i] = InstanceState_new.plugin]
                 /\ last' = Outcome("new", i, "err", "")
                 /\ UNCHANGED <<pc, instances, host_calls>>
            ELSE /\ phase' = [phase EXCEPT ![i] = "alive"]
                 /\ state_plugin' = [state_plugin EXCEPT ![i] = plugin]
                 /\ instances' = register_instance(instances, i)
                 /\ host_calls' = [host_calls EXCEPT
                                     ![i] = Append(@, "register_instance")]
                 /\ last' = Outcome("new", i, "ok", "")
    /\ UNCHANGED <<pc, calls, audio>>

(***************************************************************************)
(* Plugin::status()                                                        *)
(***************************************************************************)
status(i) ==
    /\ phase[i] = "alive"
    /\ last' = Outcome("status", i, "ok", state_status[i])
    /\ UNCHANGED <<pc, phase, state_status, state_plugin, instances, host_calls,
                   factory_calls, calls, audio>>

(***************************************************************************)
(* Faulty variant of get_extension: the component is always asked for the  *)
(* GUI capability's id.                                                    *)
(***************************************************************************)
get_extension_gui_id(i, T) ==
    /\ T \in MainThreadExtensions
    /\ phase[i] = "alive"
    /\ IF ~assert_plugin_state_initialized(i)
       THEN Panicked("get_extension", i)
       ELSE /\ Recorded(Instances) < MaxCalls
            /\ \E extension_ptr \in Pointers :
                 /\ calls' = Record(i, Call("get_extension", EXTENSION_ID("Gui"),
                                            0, 0, extension_ptr))
                 /\ last' = Outcome("get_extension", i, "ok",
                                    IF extension_ptr = NULL THEN "None"
                                    ELSE extension_ptr)
            /\ UNCHANGED <<pc, phase, state_status, state_plugin, instances,
                           host_calls, factory_calls, audio>>

(***************************************************************************)
(* Plugin::get_extension::<T>()                                            *)
(***************************************************************************)
get_extension(i, T) ==
    /\ T \in MainThreadExtensions
    /\ phase[i] = "alive"
    /\ IF ~assert_plugin_state_initialized(i)
       THEN Panicked("get_extension", i)
       ELSE /\ Recorded(Instances) < MaxCalls
            /\ \E extension_ptr \in Pointers :
                 /\ calls' = Record(i, Call("get_extension", EXTENSION_ID(T),
                                            0, 0, extension_ptr))
                 /\ last' = Outcome("get_extension", i, "ok",
                                    IF extension_ptr = NULL THEN "None"
                                    ELSE extension_ptr)
            /\ UNCHANGED <<pc, phase, state_status, state_plugin, instances,
                           host_calls, factory_calls, audio>>

(***************************************************************************)
(* Gui::get_preferred_api(plugin, is_floating), on a Gui capability that   *)
(* get_extension returned for the instance.  is_floating is the caller's   *)
(* bool behind the &mut; the outcome carries its value after the call.     *)
(***************************************************************************)
\* get_extension::<Gui>() has returned a capability for instance i.
HasGui(i) ==
    \E k \in 1..Len(calls[i]) :
        /\ calls[i][k].fn = "get_extension"
        /\ calls[i][k].id = EXTENSION_ID("Gui")
        /\ calls[i][k].ret # NULL

PreferredApi(i, api, is_floating) ==
    [op |-> "get_preferred_api", inst |-> i, result |-> "ok", value |-> api,
     is_floating |-> is_floating]

\* The windowing APIs a component may prefer.
WindowApis == {"x11", "cocoa"}

\* Faulty variant: the query is delegated to the component, as the line
\* commented out in the body would.
get_preferred_api_delegating(i, is_floating) ==
    /\ phase[i] = "alive"
    /\ HasGui(i)
    /\ \E api \in WindowApis, floating \in BOOLEAN :
         /\ calls' = Record(i, Call("gui.get_preferred_api", "", 0, 0, api))
         /\ last' = PreferredApi(i, api, floating)
    /\ UNCHANGED <<pc, phase, state_status, state_plugin, instances, host_calls,
                   factory_calls, audio>>

get_preferred_api(i, is_floating) ==
    /\ phase[i] = "alive"
    /\ HasGui(i)
    /\ last' = PreferredApi(i, "", is_floating)
    /\ UNCHANGED <<pc, phase, state_status, state_plugin, instances, host_calls,
                   factory_calls, calls, audio>>

(***************************************************************************)
(* Faulty variant of init: the state assertion is missing.                 *)
(***************************************************************************)
init_unchecked(i) ==
    /\ phase[i] = "alive"
    /\ Recorded(Instances) < MaxCalls
    /\ \E ret \in BOOLEAN :
         /\ calls' = Record(i, Call("init", "", 0, 0, BoolRet(ret)))
         /\ IF ret
            THEN /\ state_status' = [state_status EXCEPT ![i] = "Deactivated"]
                 /\ last' = Outcome("init", i, "ok", "")
            ELSE /\ UNCHANGED state_status
                 /\ last' = Outcome("init", i, "err", "")
    /\ UNCHANGED <<pc, phase, state_plugin, instances, host_calls, factory_calls,
                   audio>>

(***************************************************************************)
(* Plugin::init()                                                          *)
(***************************************************************************)
init(i) ==
    /\ phase[i] = "alive"
    /\ IF ~assert_plugin_state_eq(i, "Uninitialized")
       THEN Panicked("init", i)
       ELSE /\ Recorded(Instances) < MaxCalls
            /\ \E ret \in BOOLEAN :
                 /\ calls' = Record(i, Call("init", "", 0, 0, BoolRet(ret)))
                 /\ IF ret
                    THEN /\ state_status' = [state_status EXCEPT ![i] = "Deactivated"]
                         /\ last' = Outcome("init", i, "ok", "")
                    ELSE /\ UNCHANGED state_status
                         /\ last' = Outcome("init", i, "err", "")
            /\ UNCHANGED <<pc, phase, state_plugin, instances, host_calls,
                           factory_calls, audio>>

(***************************************************************************)
(* Faulty variants of activate: without the state assertion                *)
(* (check_state), without assert!(min_buffer_size >= 1) (check_min), or    *)
(* storing Activated whatever the component reports (use_ret).             *)
(***************************************************************************)
activate_variant(i, min_buffer_size, max_buffer_size,
                 check_state, check_min, use_ret) ==
    /\ phase[i] = "alive"
    /\ IF check_state /\ ~assert_plugin_state_eq(i, "Deactivated")
       THEN Panicked("activate", i)
       ELSE IF check_min /\ ~usize_ge_1(min_buffer_size)
       THEN Panicked("activate", i)
       ELSE /\ Recorded(Instances) < MaxCalls
            /\ \E ret \in BOOLEAN :
                 /\ calls' = Record(i, Call("activate", "",
                                            as_u32(min_buffer_size),
                                            as_u32(max_buffer_size),
                                            BoolRet(ret)))
                 /\ IF ret \/ ~use_ret
                    THEN /\ state_status' = [state_status EXCEPT ![i] = "Activated"]
                         /\ last' = Outcome("activate", i, "ok", "")
                    ELSE /\ UNCHANGED state_status
                         /\ last' = Outcome("activate", i, "err", "")
            /\ UNCHANGED <<pc, phase, state_plugin, instances, host_calls,
                           factory_calls, audio>>

activate_unchecked(i, min_buffer_size, max_buffer_size) ==
    activate_variant(i, min_buffer_size, max_buffer_size, FALSE, TRUE, TRUE)

activate_no_min_check(i, min_buffer_size, max_buffer_size) ==
    activate_variant(i, min_buffer_size, max_buffer_size, TRUE, FALSE, TRUE)

activate_ignores_result(i, min_buffer_size, max_buffer_size) ==
    activate_variant(i, min_buffer_size, max_buffer_size, TRUE, TRUE, FALSE)

\* Faulty variant: a successful activation is taken to start processing.
activate_starts_processing(i, min_buffer_size, max_buffer_size) ==
    /\ phase[i] = "alive"
    /\ IF ~assert_plugin_state_eq(i, "Deactivated")
       THEN Panicked("activate", i)
       ELSE IF ~usize_ge_1(min_buffer_size)
       THEN Panicked("activate", i)
       ELSE /\ Recorded(Instances) < MaxCalls
            /\ \E ret \in BOOLEAN :
                 /\ calls' = Record(i, Call("activate", "",
                                            as_u32(min_buffer_size),
                                            as_u32(max_buffer_size),
                                            BoolRet(ret)))
                 /\ IF ret
                    THEN /\ state_status' = [state_status EXCEPT ![i] = "Processing"]
                         /\ last' = Outcome("activate", i, "ok", "")
                    ELSE /\ UNCHANGED state_status
                         /\ last' = Outcome("activate", i, "err", "")
            /\ UNCHANGED <<pc, phase, state_plugin, instances, host_calls,
                           factory_calls, audio>>

(***************************************************************************)
(* Plugin::activate(sample_rate, min_buffer_size, max_buffer_size)         *)
(* sample_rate is handed to the component as it is and is not recorded.    *)
(***************************************************************************)
activate(i, min_buffer_size, max_buffer_size) ==
    /\ phase[i] = "alive"
    /\ IF ~assert_plugin_state_eq(i, "Deactivated")
       THEN Panicked("activate", i)
       ELSE IF ~usize_ge_1(min_buffer_size)
       THEN Panicked("activate", i)
       ELSE /\ Recorded(Instances) < MaxCalls
            /\ \E ret \in BOOLEAN :
                 /\ calls' = Record(i, Call("activate", "",
                                            as_u32(min_buffer_size),
                                            as_u32(max_buffer_size),
                                            BoolRet(ret)))
                 /\ IF ret
                    THEN /\ state_status' = [state_status EXCEPT ![i] = "Activated"]
                         /\ last' = Outcome("activate", i, "ok", "")
                    ELSE /\ UNCHANGED state_status
                         /\ last' = Outcome("activate", i, "err", "")
            /\ UNCHANGED <<pc, phase, state_plugin, instances, host_calls,
                           factory_calls, audio>>

(***************************************************************************)
(* Faulty variant of deactivate: the state assertion is missing.           *)
(***************************************************************************)
deactivate_unchecked(i) ==
    /\ phase[i] = "alive"
    /\ Recorded(Instances) < MaxCalls
    /\ calls' = Record(i, Call("deactivate", "", 0, 0, "void"))
    /\ state_status' = [state_status EXCEPT ![i] = "Deactivated"]
    /\ last' = Outcome("deactivate", i, "ok", "")
    /\ UNCHANGED <<pc, phase, state_plugin, instances, host_calls, factory_calls,
                   audio>>

(***************************************************************************)
(* Plugin::deactivate()                                                    *)
(***************************************************************************)
deactivate(i) ==
    /\ phase[i] = "alive"
    /\ IF ~assert_plugin_state_eq(i, "Activated")
       THEN Panicked("deactivate", i)
       ELSE /\ Recorded(Instances) < MaxCalls
            /\ calls' = Record(i, Call("deactivate", "", 0, 0, "void"))
            /\ state_status' = [state_status EXCEPT ![i] = "Deactivated"]
            /\ last' = Outcome("deactivate", i, "ok", "")
            /\ UNCHANGED <<pc, phase, state_plugin, instances, host_calls,
                           factory_calls, audio>>

(***************************************************************************)
(* Faulty variant of drop: an Activated instance is destroyed without      *)
(* being deactivated first.                                                *)
(***************************************************************************)
drop_no_deactivate(i) ==
    /\ phase[i] = "alive"
    /\ IF state_status[i] = "Processing"
       THEN /\ phase' = [phase EXCEPT ![i] = "aborted"]
            /\ last' = Outcome("drop", i, "panic", "")
            /\ UNCHANGED <<pc, state_status, state_plugin, instances, host_calls,
                           factory_calls, calls, audio>>
       ELSE /\ calls' = Record(i, Call("destroy", "", 0, 0, "void"))
            /\ instances' = unregister_instance(instances, i)
            /\ host_calls' = [host_calls EXCEPT
                                ![i] = Append(@, "unregister_instance")]
            /\ phase' = [phase EXCEPT ![i] = "dropped"]
            /\ last' = Outcome("drop", i, "ok", "")
            /\ UNCHANGED <<pc, state_status, state_plugin, factory_calls, audio>>

\* Faulty variant of drop: an instance that is being processed is torn down
\* like an Activated one.
drop_tolerates_processing(i) ==
    /\ phase[i] = "alive"
    /\ IF state_status[i] \in {"Activated", "Processing"}
       THEN /\ calls' = [calls EXCEPT ![i] =
                           @ \o << Call("deactivate", "", 0, 0, "void"),
                                   Call("destroy", "", 0, 0, "void") >>]
            /\ state_status' = [state_status EXCEPT ![i] = "Deactivated"]
       ELSE /\ calls' = Record(i, Call("destroy", "", 0, 0, "void"))
            /\ UNCHANGED state_status
    /\ instances' = unregister_instance(instances, i)
    /\ host_calls' = [host_calls EXCEPT ![i] = Append(@, "unregister_instance")]
    /\ phase' = [phase EXCEPT ![i] = "dropped"]
    /\ last' = Outcome("drop", i, "ok", "")
    /\ UNCHANGED <<pc, state_plugin, factory_calls, audio>>

(***************************************************************************)
(* impl Drop for Plugin                                                    *)
(***************************************************************************)
drop(i) ==
    /\ phase[i] = "alive"
    /\ IF state_status[i] = "Processing"
       THEN /\ phase' = [phase EXCEPT ![i] = "aborted"]
            /\ last' = Outcome("drop", i, "panic", "")
            /\ UNCHANGED <<pc, state_status, state_plugin, instances, host_calls,
                           factory_calls, calls, audio>>
       ELSE /\ IF state_status[i] = "Activated"
               THEN \* self.deactivate(), then destroy
                    /\ calls' = [calls EXCEPT ![i] =
                                   @ \o << Call("deactivate", "", 0, 0, "void"),
                                           Call("destroy", "", 0, 0, "void") >>]
                    /\ state_status' = [state_status EXCEPT ![i] = "Deactivated"]
               ELSE /\ calls' = Record(i, Call("destroy", "", 0, 0, "void"))
                    /\ UNCHANGED state_status
            /\ instances' = unregister_instance(instances, i)
            /\ host_calls' = [host_calls EXCEPT
                                ![i] = Append(@, "unregister_instance")]
            /\ phase' = [phase EXCEPT ![i] = "dropped"]
            /\ last' = Outcome("drop", i, "ok", "")
            /\ UNCHANGED <<pc, state_plugin, factory_calls, audio>>

(***************************************************************************)
(* The audio-thread bridge (plugin/instance/process.rs), seen from the     *)
(* main thread: a session on the audio thread moves the status from        *)
(* Activated to Processing when it starts processing and back to Activated *)
(* when it stops.  The bridge's own entry points are not part of the        *)
(* main-thread record.                                                     *)
(***************************************************************************)
start_processing(i) ==
    /\ phase[i] = "alive"
    /\ ~audio[i]
    /\ state_status[i] = "Activated"
    /\ audio' = [audio EXCEPT ![i] = TRUE]
    /\ state_status' = [state_status EXCEPT ![i] = "Processing"]
    /\ last' = Outcome("start_processing", i, "ok", "")
    /\ UNCHANGED <<pc, phase, state_plugin, instances, host_calls, factory_calls,
                   calls>>

stop_processing(i) ==
    /\ phase[i] = "alive"
    /\ audio[i]
    /\ state_status[i] = "Processing"
    /\ audio' = [audio EXCEPT ![i] = FALSE]
    /\ state_status' = [state_status EXCEPT ![i] = "Activated"]
    /\ last' = Outcome("stop_processing", i, "ok", "")
    /\ UNCHANGED <<pc, phase, state_plugin, instances, host_calls, factory_calls,
                   calls>>

(***************************************************************************)
(* The harness calls the operations in any order.                          *)
(***************************************************************************)
Next ==
    \E i \in Instances :
        \/ new(i)
        \/ status(i)
        \/ \E T \in ConcreteCapabilities : get_extension(i, T)
        \/ \E is_floating \in BOOLEAN : get_preferred_api(i, is_floating)
        \/ init(i)
        \/ \E min_buffer_size, max_buffer_size \in BufferSizes :
               activate(i, min_buffer_size, max_buffer_size)
        \/ deactivate(i)
        \/ drop(i)
        \/ start_processing(i)
        \/ stop_processing(i)

Spec == Init /\ [][Next]_vars

(***************************************************************************)
(* The same program statement by statement, for what other threads and the *)
(* component can do while the main thread is inside new, deactivate or     *)
(* drop.  Each step is one statement (or one atomic access) of the method; *)
(* the audio-thread bridge and host callbacks requested by the component   *)
(* may act between any two steps.                                          *)
(***************************************************************************)
\* The component's destroy entry point has been invoked on instance i.
Destroyed(i) == \E k \in 1..Len(calls[i]) : calls[i][k].fn = "destroy"

\* Faulty variant of new_alloc: the InstanceState is registered as soon as
\* it is allocated, before there is a plugin pointer.
new_alloc_registers(i) ==
    /\ pc = Idle
    /\ phase[i] = "unborn"
    /\ state_status' = [state_status EXCEPT ![i] = InstanceState_new.status]
    /\ state_plugin' = [state_plugin EXCEPT ![i] = InstanceState_new.plugin]
    /\ instances' = register_instance(instances, i)
    /\ phase' = [phase EXCEPT ![i] = "creating"]
    /\ pc' = At("new_create", i, FALSE)
    /\ UNCHANGED <<host_calls, factory_calls, calls, audio, last>>

\* Plugin::new: let state = InstanceState::new(host.clone());
new_alloc(i) ==
    /\ pc = Idle
    /\ phase[i] = "unborn"
    /\ state_status' = [state_status EXCEPT ![i] = InstanceState_new.status]
    /\ state_plugin' = [state_plugin EXCEPT ![i] = InstanceState_new.plugin]
    /\ phase' = [phase EXCEPT ![i] = "creating"]
    /\ pc' = At("new_create", i, FALSE)
    /\ UNCHANGED <<instances, host_calls, factory_calls, calls, audio, last>>

\* Plugin::new: create_plugin returns; on null the method bails out,
\* otherwise the handle is stored in the InstanceState.
new_create(i) ==
    /\ pc = At("new_create", i, FALSE)
    /\ \E plugin \in {NULL, i} :
         /\ factory_calls' = [factory_calls EXCEPT ![i] = Append(@, plugin)]
         /\ IF plugin = NULL
            THEN /\ phase' = [phase EXCEPT ![i] = "failed"]
                 /\ last' = Outcome("new", i, "err", "")
                 /\ pc' = Idle
                 /\ UNCHANGED state_plugin
            ELSE /\ state_plugin' = [state_plugin EXCEPT ![i] = plugin]
                 /\ pc' = At("new_register", i, FALSE)
                 /\ UNCHANGED <<phase, last>>
    /\ UNCHANGED <<state_status, instances, host_calls, calls, audio>>

\* Plugin::new: host.register_instance(state.clone()); Ok(Plugin { .. })
new_register(i) ==
    /\ pc = At("new_register", i, FALSE)
    /\ instances' = register_instance(instances, i)
    /\ host_calls' = [host_calls EXCEPT ![i] = Append(@, "register_instance")]
    /\ phase' = [phase EXCEPT ![i] = "alive"]
    /\ last' = Outcome("new", i, "ok", "")
    /\ pc' = Idle
    /\ UNCHANGED <<state_status, state_plugin, factory_calls, calls, audio>>

\* Plugin::deactivate: assert_plugin_state_eq!(self, PluginStatus::Activated),
\* called by the harness or by drop.
deactivate_assert(i) ==
    /\ phase[i] = "alive"
    /\ pc = Idle \/ pc = At("deactivate_assert", i, TRUE)
    /\ IF ~assert_plugin_state_eq(i, "Activated")
       THEN /\ last' = Outcome(IF pc.in_drop THEN "drop" ELSE "deactivate",
                               i, "panic", "")
            /\ phase' = [phase EXCEPT
                           ![i] = IF pc.in_drop THEN "aborted" ELSE @]
            /\ pc' = Idle
            /\ UNCHANGED <<state_status, state_plugin, instances, host_calls,
                           factory_calls, calls, audio>>
       ELSE /\ pc.in_drop \/ Recorded(Instances) < MaxCalls
            /\ pc' = At("deactivate_call", i, pc.in_drop)
            /\ UNCHANGED <<phase, state_status, state_plugin, instances,
                           host_calls, factory_calls, calls, audio, last>>

\* Plugin::deactivate: unsafe_clap_call! { self.as_ptr()=>deactivate(..) }
deactivate_call(i) ==
    /\ pc.at = "deactivate_call"
    /\ pc.inst = i
    /\ calls' = Record(i, Call("deactivate", "", 0, 0, "void"))
    /\ pc' = At("deactivate_store", i, pc.in_drop)
    /\ UNCHANGED <<phase, state_status, state_plugin, instances, host_calls,
                   factory_calls, audio, last>>

\* Plugin::deactivate: self.state.status.store(PluginStatus::Deactivated)
deactivate_store(i) ==
    /\ pc.at = "deactivate_store"
    /\ pc.inst = i
    /\ state_status' = [state_status EXCEPT ![i] = "Deactivated"]
    /\ IF pc.in_drop
       THEN /\ pc' = At("drop_destroy", i, TRUE)
            /\ UNCHANGED last
       ELSE /\ pc' = Idle
            /\ last' = Outcome("deactivate", i, "ok", "")
    /\ UNCHANGED <<phase, state_plugin, instances, host_calls, factory_calls,
                   calls, audio>>

\* drop: match self.status() { .. }
drop_match(i) ==
    /\ pc = Idle
    /\ phase[i] = "alive"
    /\ IF state_status[i] = "Processing"
       THEN /\ phase' = [phase EXCEPT ![i] = "aborted"]
            /\ last' = Outcome("drop", i, "panic", "")
            /\ UNCHANGED pc
       ELSE /\ pc' = IF state_status[i] = "Activated"
                     THEN At("deactivate_assert", i, TRUE)
                     ELSE At("drop_destroy", i, TRUE)
            /\ UNCHANGED <<phase, last>>
    /\ UNCHANGED <<state_status, state_plugin, instances, host_calls,
                   factory_calls, calls, audio>>

\* drop: unsafe_clap_call! { self.as_ptr()=>destroy(self.as_ptr()) }
drop_destroy(i) ==
    /\ pc = At("drop_destroy", i, TRUE)
    /\ calls' = Record(i, Call("destroy", "", 0, 0, "void"))
    /\ pc' = At("drop_unregister", i, TRUE)
    /\ UNCHANGED <<phase, state_status, state_plugin, instances, host_calls,
                   factory_calls, audio, last>>

\* drop: self.host().unregister_instance(self.state.clone())
drop_unregister(i) ==
    /\ pc = At("drop_unregister", i, TRUE)
    /\ instances' = unregister_instance(instances, i)
    /\ host_calls' = [host_calls EXCEPT ![i] = Append(@, "unregister_instance")]
    /\ phase' = [phase EXCEPT ![i] = "dropped"]
    /\ last' = Outcome("drop", i, "ok", "")
    /\ pc' = Idle
    /\ UNCHANGED <<state_status, state_plugin, factory_calls, calls, audio>>

\* Host dispatches a callback the component requested to the instance it is
\* registered for; the outcome tells whether that instance was destroyed.
host_callback(i) ==
    /\ i \in instances
    /\ last' = Outcome("host_callback", i, "ok",
                       IF Destroyed(i) THEN "destroyed" ELSE "live")
    /\ UNCHANGED <<phase, state_status, state_plugin, instances, host_calls,
                   factory_calls, calls, audio, pc>>

NextConc ==
    \E i \in Instances :
        \/ new_alloc(i)
        \/ new_create(i)
        \/ new_register(i)
        \/ pc = Idle /\ status(i)
        \/ pc = Idle /\ \E T \in ConcreteCapabilities : get_extension(i, T)
        \/ pc = Idle /\ \E is_floating \in BOOLEAN : get_preferred_api(i, is_floating)
        \/ pc = Idle /\ init(i)
        \/ pc = Idle /\ \E min_buffer_size, max_buffer_size \in BufferSizes :
                            activate(i, min_buffer_size, max_buffer_size)
        \/ deactivate_assert(i)
        \/ deactivate_call(i)
        \/ deactivate_store(i)
        \/ drop_match(i)
        \/ drop_destroy(i)
        \/ drop_unregister(i)
        \/ start_processing(i)
        \/ stop_processing(i)
        \/ host_callback(i)

SpecConc == Init /\ [][NextConc]_vars

(***************************************************************************)
(* Helpers of the properties.                                              *)
(***************************************************************************)
\* The operation that just completed is `op` on instance i, called while i
\* was alive.
Completed(op, i) == phase[i] = "alive" /\ last'.op = op /\ last'.inst = i

\* The step left everything but the outcome as it was.
NothingElseChanged ==
    UNCHANGED <<pc, phase, state_status, state_plugin, instances, host_calls,
                factory_calls, calls, audio>>

\* The names of the entry points in a record, in order.
Fns(cs) == [k \in 1..Len(cs) |-> cs[k].fn]

\* The last n entries of a sequence.
Suffix(sq, n) == SubSeq(sq, Len(sq) - n + 1, Len(sq))

\* How often x occurs in a sequence.
Count(sq, x) == Cardinality({k \in 1..Len(sq) : sq[k] = x})

(***************************************************************************)
(* C1: every change of an instance's lifecycle status moves it to an       *)
(* adjacent state of Uninitialized < Deactivated < Activated < Processing: *)
(* one level forward or one level backward, never two or more.             *)
(***************************************************************************)
C1_SingleStepTransitions ==
    [][\A i \in Instances :
          (state_status[i] \in StatusValues /\ state_status'[i] # state_status[i])
             => /\ state_status'[i] \in StatusValues
                /\ Ord(state_status'[i]) - Ord(state_status[i]) \in {1, -1}]_vars

\* An instance has gone forward twice and back once.
C1_Witness ==
    \E i \in Instances :
        /\ last = Outcome("deactivate", i, "ok", "")
        /\ state_status[i] = "Deactivated"

(***************************************************************************)
(* C2: init, activate, deactivate or get_extension called while the status *)
(* is not the one the operation requires panics, records no entry-point    *)
(* call and leaves the status (and everything else) unchanged.             *)
(***************************************************************************)
RequiredStatus(op, st) ==
    CASE op = "init" -> st = "Uninitialized"
      [] op = "activate" -> st = "Deactivated"
      [] op = "deactivate" -> st = "Activated"
      [] op = "get_extension" -> st # "Uninitialized"

C2_WrongStateRefused ==
    [][\A i \in Instances :
         \A op \in {"init", "activate", "deactivate", "get_extension"} :
            (Completed(op, i) /\ ~RequiredStatus(op, state_status[i]))
               => /\ last'.result = "panic"
                  /\ calls' = calls
                  /\ state_status' = state_status
                  /\ NothingElseChanged]_vars

\* deactivate was refused on an instance that is being processed.
C2_Witness ==
    \E i \in Instances :
        /\ last = Outcome("deactivate", i, "panic", "")
        /\ state_status[i] = "Processing"

(***************************************************************************)
(* C3: status() called right after a successful new(), before any other    *)
(* operation, returns Uninitialized.                                       *)
(***************************************************************************)
C3_FreshStatusUninitialized ==
    [][\A i \in Instances :
          (last = Outcome("new", i, "ok", "") /\ Completed("status", i))
             => last' = Outcome("status", i, "ok", "Uninitialized")]_vars

\* status() has answered for an instance nothing else was done with.
C3_Witness ==
    \E i \in Instances :
        /\ last = Outcome("status", i, "ok", "Uninitialized")
        /\ calls[i] = <<>>
        /\ ~audio[i]

(***************************************************************************)
(* C4: when create_plugin returns null, new() fails, no controller exists, *)
(* the Host registry is unchanged and no handle is stored; when it returns *)
(* a non-null pointer, that handle is stored and the InstanceState is      *)
(* registered, and it is registered no more than once ever after.          *)
(***************************************************************************)
C4_NewNullOrRegistered ==
    [][\A i \in Instances :
          /\ Count(host_calls'[i], "register_instance") <= 1
          /\ (phase[i] = "unborn" /\ phase'[i] # "unborn")
               => /\ Len(factory_calls'[i]) = 1
                  /\ IF factory_calls'[i][1] = NULL
                     THEN /\ last' = Outcome("new", i, "err", "")
                          /\ phase'[i] = "failed"
                          /\ instances' = instances
                          /\ host_calls' = host_calls
                          /\ state_plugin'[i] = "None"
                     ELSE /\ last' = Outcome("new", i, "ok", "")
                          /\ phase'[i] = "alive"
                          /\ state_plugin'[i] = factory_calls'[i][1]
                          /\ i \notin instances
                          /\ instances' = instances \cup {i}
                          /\ host_calls'[i] = <<"register_instance">>]_vars

\* One creation failed while another instance is registered.
C4_Witness ==
    \E i, j \in Instances :
        /\ last = Outcome("new", i, "err", "")
        /\ phase[j] = "alive"
        /\ instances = {j}

(***************************************************************************)
(* C5: init() on an Uninitialized instance invokes the init entry point    *)
(* exactly once, and when the component reports success the status becomes *)
(* Deactivated; once init has succeeded, a later init() on the instance     *)
(* panics on the state assertion and invokes nothing.                      *)
(***************************************************************************)
InitSucceeded(i) ==
    \E k \in 1..Len(calls[i]) : calls[i][k] = Call("init", "", 0, 0, "true")

C5_InitOnceThenWrongState ==
    [][\A i \in Instances :
          Completed("init", i)
             => /\ state_status[i] = "Uninitialized"
                  => \E ret \in {"true", "false"} :
                        /\ calls'[i] = Append(calls[i], Call("init", "", 0, 0, ret))
                        /\ ret = "true"
                             => /\ state_status'[i] = "Deactivated"
                                /\ last'.result = "ok"
                /\ InitSucceeded(i)
                  => /\ last'.result = "panic"
                     /\ calls' = calls
                     /\ state_status' = state_status]_vars

\* A second init() was refused after the first one succeeded.
C5_Witness ==
    \E i \in Instances :
        /\ last = Outcome("init", i, "panic", "")
        /\ calls[i] = << Call("init", "", 0, 0, "true") >>
        /\ state_status[i] = "Deactivated"

(***************************************************************************)
(* C6: once the component has reported failure from its init entry point,  *)
(* the status stays Uninitialized and the only entry point invoked on the  *)
(* instance afterwards is destroy (no further init in particular).         *)
(***************************************************************************)
C6_FailedInitOnlyDestroy ==
    \A i \in Instances :
        \A k \in 1..Len(calls[i]) :
            calls[i][k] = Call("init", "", 0, 0, "false")
               => /\ state_status[i] = "Uninitialized"
                  /\ \A j \in (k + 1)..Len(calls[i]) : calls[i][j].fn = "destroy"

(***************************************************************************)
(* C7: activate() with min_buffer_size = 0 on a Deactivated instance       *)
(* panics, records no entry-point call and leaves the status Deactivated.  *)
(***************************************************************************)
C7_ZeroMinBufferRefused ==
    [][\A i \in Instances : \A max_buffer_size \in BufferSizes :
          (state_status[i] = "Deactivated"
             /\ activate(i, USize(0, 0), max_buffer_size))
             => /\ last' = Outcome("activate", i, "panic", "")
                /\ calls' = calls
                /\ state_status'[i] = "Deactivated"
                /\ NothingElseChanged]_vars

\* activate() panicked although the status was the required one.
C7_Witness ==
    \E i \in Instances :
        /\ last = Outcome("activate", i, "panic", "")
        /\ state_status[i] = "Deactivated"
        /\ phase[i] = "alive"

(***************************************************************************)
(* C8: activate() on a Deactivated instance with min_buffer_size >= 1      *)
(* invokes the activate entry point once; the status becomes Activated     *)
(* exactly when the component reports success, and when it reports failure *)
(* activate() fails and the status is still Deactivated.                   *)
(***************************************************************************)
C8_ActivatedIffComponentSucceeds ==
    [][\A i \in Instances : \A min_buffer_size, max_buffer_size \in BufferSizes :
          (state_status[i] = "Deactivated"
             /\ usize_ge_1(min_buffer_size)
             /\ activate(i, min_buffer_size, max_buffer_size))
             => \E ret \in {"true", "false"} :
                   /\ calls'[i] = Append(calls[i],
                                         Call("activate", "",
                                              as_u32(min_buffer_size),
                                              as_u32(max_buffer_size), ret))
                   /\ (state_status'[i] = "Activated") <=> (ret = "true")
                   /\ ret = "true" => last' = Outcome("activate", i, "ok", "")
                   /\ ret = "false"
                        => /\ last' = Outcome("activate", i, "err", "")
                           /\ state_status'[i] = "Deactivated"]_vars

\* The component refused an activation.
C8_Witness ==
    \E i \in Instances :
        /\ last = Outcome("activate", i, "err", "")
        /\ state_status[i] = "Deactivated"
        /\ calls[i][Len(calls[i])].fn = "activate"
        /\ calls[i][Len(calls[i])].ret = "false"

(***************************************************************************)
(* C9: teardown of an Activated instance invokes deactivate once and then  *)
(* destroy, so that a successful activate() followed by drop ends the      *)
(* record with activate, deactivate, destroy; teardown of an Uninitialized *)
(* or Deactivated instance invokes destroy alone.                          *)
(***************************************************************************)
C9_TeardownCallOrder ==
    [][\A i \in Instances :
          (Completed("drop", i) /\ state_status[i] # "Processing")
             => /\ state_status[i] = "Activated"
                  => Fns(calls'[i]) = Fns(calls[i]) \o <<"deactivate", "destroy">>
                /\ state_status[i] \in {"Uninitialized", "Deactivated"}
                  => Fns(calls'[i]) = Fns(calls[i]) \o <<"destroy">>
                /\ last = Outcome("activate", i, "ok", "")
                  => Suffix(Fns(calls'[i]), 3)
                        = <<"activate", "deactivate", "destroy">>]_vars

\* An instance was dropped while Activated.
C9_Witness ==
    \E i \in Instances :
        /\ last = Outcome("drop", i, "ok", "")
        /\ Len(calls[i]) >= 3
        /\ Suffix(Fns(calls[i]), 3) = <<"activate", "deactivate", "destroy">>

(***************************************************************************)
(* C10: get_extension::<T>() panics while the status is Uninitialized; in  *)
(* any later status it queries the component once with T's id and returns  *)
(* None exactly when the component returns null, otherwise the capability  *)
(* wrapping the returned table; the status never changes.                  *)
(***************************************************************************)
C10_GetExtension ==
    [][\A i \in Instances : \A T \in MainThreadExtensions :
          get_extension(i, T)
             => /\ state_status' = state_status
                /\ IF state_status[i] = "Uninitialized"
                   THEN /\ last' = Outcome("get_extension", i, "panic", "")
                        /\ calls' = calls
                   ELSE \E ptr \in Pointers :
                           /\ calls'[i] = Append(calls[i],
                                                 Call("get_extension",
                                                      EXTENSION_ID(T), 0, 0, ptr))
                           /\ last'.result = "ok"
                           /\ (last'.value = "None") <=> (ptr = NULL)
                           /\ ptr # NULL => last'.value = ptr]_vars

\* The POSIX fd capability was acquired from an initialized instance.
C10_Witness ==
    \E i \in Instances :
        /\ last = Outcome("get_extension", i, "ok", "tbl2")
        /\ calls[i][Len(calls[i])]
              = Call("get_extension", "clap.posix-fd-support", 0, 0, "tbl2")

(***************************************************************************)
(* C11: teardown of an instance whose status is Processing panics: it does *)
(* not complete as a normal teardown, and neither deactivate nor destroy   *)
(* (nor any other entry point) is invoked.                                 *)
(***************************************************************************)
C11_DropWhileProcessingIsFatal ==
    [][\A i \in Instances :
          (Completed("drop", i) /\ state_status[i] = "Processing")
             => /\ last' = Outcome("drop", i, "panic", "")
                /\ phase'[i] = "aborted"
                /\ calls' = calls
                /\ state_status' = state_status]_vars

\* An instance was dropped while it was being processed.
C11_Witness ==
    \E i \in Instances :
        /\ last = Outcome("drop", i, "panic", "")
        /\ phase[i] = "aborted"
        /\ state_status[i] = "Processing"

(***************************************************************************)
(* C12: the GUI preferred-API query returns the empty string for every     *)
(* input, records no cross-boundary call and leaves the caller's           *)
(* is_floating as it was.                                                  *)
(***************************************************************************)
C12_PreferredApiAlwaysEmpty ==
    [][\A i \in Instances : \A is_floating \in BOOLEAN :
          get_preferred_api(i, is_floating)
             => /\ last'.value = ""
                /\ last'.is_floating = is_floating
                /\ calls' = calls
                /\ NothingElseChanged]_vars

\* The query answered on an acquired GUI capability, is_floating being set.
C12_Witness ==
    \E i \in Instances :
        /\ last = PreferredApi(i, "", TRUE)
        /\ HasGui(i)

(***************************************************************************)
(* C13: once teardown of an instance has run, from any status including    *)
(* Processing, the InstanceState is no longer registered with Host.        *)
(***************************************************************************)
C13_UnregisteredAfterTeardown ==
    \A i \in Instances :
        phase[i] \in {"dropped", "aborted"} => i \notin instances

(***************************************************************************)
(* C16: every invocation of the activate entry point receives a min_buffer *)
(* of at least 1 as a 32-bit value, whatever min_buffer_size was passed.   *)
(***************************************************************************)
C16_ActivateMinBufferAtLeastOne ==
    \A i \in Instances :
        \A k \in 1..Len(calls[i]) :
            calls[i][k].fn = "activate" => calls[i][k].min_buffer >= 1

(***************************************************************************)
(* C17: when teardown of an instance has completed normally, destroy has   *)
(* been invoked exactly once, it is the last entry point recorded, and     *)
(* deactivate has been invoked as often as activate succeeded.             *)
(***************************************************************************)
ActivateSucceeded(i) ==
    {k \in 1..Len(calls[i]) :
        calls[i][k].fn = "activate" /\ calls[i][k].ret = "true"}

C17_DestroyOnceAndLast ==
    \A i \in Instances :
        phase[i] = "dropped"
           => /\ Count(Fns(calls[i]), "destroy") = 1
              /\ calls[i][Len(calls[i])].fn = "destroy"
              /\ Count(Fns(calls[i]), "deactivate")
                    = Cardinality(ActivateSucceeded(i))

\* An instance that had been activated was torn down.
C17_Witness ==
    \E i \in Instances :
        /\ phase[i] = "dropped"
        /\ ActivateSucceeded(i) # {}

(***************************************************************************)
(* C18: the status becomes Processing only by the audio-thread bridge      *)
(* starting to process, never by an operation of the main-thread           *)
(* controller; it is Processing only while an audio-thread session is      *)
(* active, and at Activated or lower when that session has ended.          *)
(***************************************************************************)
C18_ProcessingOnlyInAudioSession ==
    [][\A i \in Instances :
          /\ (state_status'[i] = "Processing" /\ state_status[i] # "Processing")
                => last' = Outcome("start_processing", i, "ok", "")
          /\ state_status'[i] = "Processing" => audio'[i]
          /\ (audio[i] /\ ~audio'[i])
                => Ord(state_status'[i]) <= Ord("Activated")]_vars

\* A session has ended and left the instance Activated.
C18_Witness ==
    \E i \in Instances :
        /\ last = Outcome("stop_processing", i, "ok", "")
        /\ ~audio[i]
        /\ state_status[i] = "Activated"

(***************************************************************************)
(* C20: each of the three concrete capabilities (GUI, POSIX fd events,     *)
(* timer events) is declared for the borrowed main-thread context, so that *)
(* get_extension on an initialized controller can acquire it.              *)
(***************************************************************************)
C20_AllCapabilitiesAcquirable ==
    \A i \in Instances : \A T \in ConcreteCapabilities :
        (/\ phase[i] = "alive"
         /\ state_status[i] # "Uninitialized"
         /\ Recorded(Instances) < MaxCalls)
           => /\ ExtensionContext(T) = "&Plugin"
              /\ ENABLED (get_extension(i, T) /\ last'.value \in Tables)


C15_HandlePresentWhenRegistered ==
    [][\A i \in Instances :
          /\ i \in instances' => state_plugin'[i] \in Instances
          /\ state_plugin'[i] = "None"
               => /\ phase'[i] \in {"creating", "failed"}
                  /\ \A k \in 1..Len(factory_calls'[i]) :
                         factory_calls'[i][k] = NULL
          /\ phase'[i] \in {"alive", "dropped", "aborted"}
               => state_plugin'[i] \in Instances
          /\ state_plugin'[i] # state_plugin[i]
               => \/ /\ state_plugin[i] = Unallocated.plugin
                     /\ state_plugin'[i] = "None"
                     /\ phase[i] = "unborn"
                  \/ /\ state_plugin[i] = "None"
                     /\ phase[i] = "creating"
                     /\ factory_calls[i] = <<>>
                     /\ factory_calls'[i] = <<state_plugin'[i]>>
                     /\ state_plugin'[i] \in Instances]_vars

\* The handle of one instance has just been stored and the instance is not
\* yet registered, while another instance is registered with its handle.
C15_Witness ==
    \E i, j \in Instances :
        /\ pc = At("new_register", i, FALSE)
        /\ state_plugin[i] = i
        /\ i \notin instances
        /\ j \in instances
        /\ state_plugin[j] = j


(***************************************************************************)
(* C19: however the main thread's deactivate or teardown interleaves with  *)
(* the audio-thread bridge, the component's deactivate and destroy entry   *)
(* points are never invoked while the status is Processing, and the store  *)
(* of Deactivated never overwrites a status of Processing.                 *)
(***************************************************************************)
C19_NoTeardownCallWhileProcessing ==
    [][\A i \in Instances :
          /\ (/\ Len(calls'[i]) = Len(calls[i]) + 1
              /\ calls'[i][Len(calls'[i])].fn \in {"deactivate", "destroy"})
               => state_status[i] # "Processing"
          /\ ~(/\ state_status[i] = "Processing"
               /\ state_status'[i] = "Deactivated")]_vars

=============================================================================
